---- MODULE Spec2Model ----
(***************************************************************************)
(* Model of STLib/sensor.py: the Sensor pixel buffer and the operations    *)
(* clear(), accumulate(), readout() and _applyBloom().                     *)
(*                                                                         *)
(* Electron counts, digital counts and full_well are integers.  The gain   *)
(* is the rational gain / GainDen.  A Poisson draw is a nondeterministic   *)
(* choice: 0 when the mean is 0, any natural number when the mean is       *)
(* positive, and a ValueError when the mean is negative.  The bloom        *)
(* weights 1, 1/2 and 1/4 are exact in floating point; for 1/3 the floor   *)
(* of an inexact sum is a choice between the two values it can take.       *)
(* Lengths (px_len, px_pitch, psf_resolution, source positions) are whole  *)
(* numbers of ticks, a common unit of length.                              *)
(***************************************************************************)
EXTENDS Integers, Sequences, FiniteSets, TLC

\* ------------------------------------------------------------------ bounds
\* Largest height_px and width_px of the sensors of Spec.
MaxDim == 2
\* Largest total number of electrons held by the buffer of a sensor of Spec.
MaxElectrons == 3
\* Largest height_px and width_px of the sensors of BloomSpec.
BloomDim == 3
\* Largest total number of electrons in the buffer _applyBloom starts from.
BloomElectrons == 5
\* Largest full_well capacity.
MaxFullWell == 2
\* Largest length of xcoords, ycoords and photon_flux_density.
MaxSources == 2
\* Largest bias offset.
MaxBias == 3
\* Largest adc_limit.
MaxAdc == 2
\* The gain is gain / GainDen digital counts per electron.
GainDen == 2
\* Largest read_noise mean.
MaxReadNoise == 1
\* Largest gain numerator.
MaxGain == 3
\* The count of bloom iterations kept in iter saturates here.
MaxIter == 2
\* Largest height_px and width_px of the sensors of PsfSpec.
PsfDim == 3
\* Largest px_pitch_x and px_pitch_y, in ticks (the common unit of length).
MaxPitch == 3
\* Largest lens.psf_resolution, in ticks.
MaxResolution == 3

\* ---------------------------------------------------------------- state
VARIABLES
    width_px, height_px,    \* geometry
    px_len_x, px_len_y,     \* active side lengths of a pixel, in ticks
    px_pitch_x, px_pitch_y, \* pixel spacing, in ticks
    pixels,                 \* the electron buffer (height_px, width_px)
    hot_pixels, read_noise, gain, bias, full_well, adc_limit, bloom,
    pc,                     \* position inside accumulate(), or "idle"
    last,                   \* the latest call and how it ended
    call,                   \* the source sequences of the accumulate() call
    entry,                  \* pixels at entry of the latest accumulate()
    exposure,               \* history: "fresh" since construction, "cleared"
                            \* since clear(), "dark" while every accumulate()
                            \* since clear() had no source, no background and
                            \* no dark current, else "lit"
    iter,                   \* iterations of the bloom loop so far (up to MaxIter)
    image,                  \* the value returned by readout()
    lens,                   \* the lens of the call: its psf_resolution, in ticks
    psf                     \* the locals of _applyPSF: nx, ny, x, y, xi, yi

fields == <<width_px, height_px, px_len_x, px_len_y, px_pitch_x, px_pitch_y,
            hot_pixels, read_noise, gain, bias, full_well, adc_limit, bloom>>

vars == <<width_px, height_px, px_len_x, px_len_y, px_pitch_x, px_pitch_y,
          pixels, hot_pixels, read_noise, gain, bias, full_well, adc_limit,
          bloom, pc, last, call, entry, exposure, iter, image, lens, psf>>

\* --------------------------------------------------------------- helpers
Max(a, b) == IF a >= b THEN a ELSE b

Min(a, b) == IF a <= b THEN a ELSE b

\* The pixel indices (row, column) of a sensor of the given shape.
Grid(h, w) == (0 .. h - 1) \X (0 .. w - 1)

Pix == Grid(height_px, width_px)

RECURSIVE SumOver(_, _)
SumOver(f, S) ==
    IF S = {} THEN 0
    ELSE LET p == CHOOSE q \in S : TRUE IN f[p] + SumOver(f, S \ {p})

\* Total electron count of a buffer.
Total(buf) == SumOver(buf, DOMAIN buf)

\* np.zeros((height_px, width_px))
Zeros(h, w) == [p \in Grid(h, w) |-> 0]

\* No buffer, no image: the value of entry and image when they hold nothing.
Nothing == [p \in {} |-> 0]

\* All sequences of n naturals whose sum is at most b.
RECURSIVE Vectors(_, _)
Vectors(n, b) ==
    IF n = 0 THEN {<<>>}
    ELSE UNION {{Append(s, v) : s \in Vectors(n - 1, b - v)} : v \in 0 .. b}

\* All (h, w) buffers of naturals whose total is at most b.
Buffers(h, w, b) ==
    {[p \in Grid(h, w) |-> s[p[1] * w + p[2] + 1]] : s \in Vectors(h * w, b)}

\* np.random.poisson(lam) for a per-pixel mean lam >= 0: 0 where the mean is
\* 0, any count where it is positive (totals capped by budget).
PoissonDraws(lam, budget) ==
    IF \A p \in DOMAIN lam : lam[p] = 0
    THEN {[p \in DOMAIN lam |-> 0]}
    ELSE {d \in Buffers(height_px, width_px, budget) :
             \A p \in DOMAIN lam : lam[p] = 0 => d[p] = 0}

\* np.random.poisson raises ValueError when a mean is negative.
PoissonRaises(lam) == \E p \in DOMAIN lam : lam[p] < 0

Plus(a, b) == [p \in DOMAIN a |-> a[p] + b[p]]

\* Electrons the buffer can still take within the model's bound.
Room == MaxElectrons - Total(pixels)

\* ----------------------------------------------------------- construction
\* _applyPSF not entered: no sample counts, no source, no centre pixel.
NoLocals == [nx |-> 0, ny |-> 0, x |-> 0, y |-> 0, xi |-> 0, yi |-> 0]

Dirs == {"+x", "-x", "+y", "-y"}

\* bias after __init__: a scalar offset (above adc_limit), or a length-width_px
\* row tiled over the rows (the row 0, 1, ..., width_px - 1).
Biases(h, w) ==
    {[p \in Grid(h, w) |-> MaxBias], [p \in Grid(h, w) |-> p[2]]}

\* Sensor.__init__: an empty buffer and the fields as given.
Init ==
    /\ height_px \in 1 .. MaxDim
    /\ width_px \in 1 .. MaxDim
    /\ px_len_x = 1
    /\ px_len_y = 1
    /\ px_pitch_x = 1
    /\ px_pitch_y = 1
    /\ pixels = Zeros(height_px, width_px)
    /\ hot_pixels = [p \in Grid(height_px, width_px) |-> 1]
    /\ read_noise \in 0 .. MaxReadNoise
    /\ gain \in (MaxGain - 1) .. MaxGain
    /\ bias \in Biases(height_px, width_px)
    /\ full_well \in 1 .. MaxFullWell
    /\ adc_limit = MaxAdc
    /\ bloom \in SUBSET Dirs
    /\ pc = "idle"
    /\ last = "init"
    /\ call = <<>>
    /\ entry = Nothing
    /\ exposure = "fresh"
    /\ iter = 0
    /\ image = Nothing
    /\ lens = [psf_resolution |-> 1]
    /\ psf = NoLocals

\* ------------------------------------------------------------------ clear
\* A clear() that builds the empty buffer and does not store it.
ClearNoReset ==
    /\ pc = "idle"
    /\ last' = "clear"
    /\ entry' = Nothing
    /\ exposure' = "cleared"
    /\ image' = Nothing
    /\ UNCHANGED <<fields, lens, psf, pixels, pc, call, iter>>

Clear ==
    /\ pc = "idle"
    /\ pixels' = Zeros(height_px, width_px)
    /\ last' = "clear"
    /\ entry' = Nothing
    /\ exposure' = "cleared"
    /\ image' = Nothing
    /\ UNCHANGED <<fields, lens, psf, pc, call, iter>>

\* -------------------------------------------------------------- _applyPSF
\* self.width and self.height, the extent of the sensor.
width == (width_px + 1) * px_pitch_x - px_len_x

height == (height_px + 1) * px_pitch_y - px_len_y

\* np.ceil(a / b) for b > 0.
Ceil(a, b) == -((-a) \div b)

\* max(2, int(np.ceil(px_len / lens.psf_resolution)))
Samples(px_len, psf_resolution) == Max(2, Ceil(px_len, psf_resolution))

\* np.round(num / den) for den > 0: to the nearest integer, a tie to the
\* even one.
Round(num, den) ==
    LET q == num \div den
        r == num - q * den
    IN  IF 2 * r < den THEN q
        ELSE IF 2 * r > den THEN q + 1
        ELSE IF q % 2 = 0 THEN q ELSE q + 1

\* The divisor of the centre-pixel lookup along one axis.
Span(extent, px_pitch, px_len) == extent - 2 * px_pitch + px_len

\* int(np.round(pos / (extent - 2*px_pitch + px_len) * n_px)) along one axis.
CentreIndex(pos, extent, px_pitch, px_len, n_px) ==
    Round(pos * n_px, Span(extent, px_pitch, px_len))

\* The lookup divides by 0: the quotient is inf or nan and int() raises.
CentreRaises ==
    \/ Span(width, px_pitch_x, px_len_x) = 0
    \/ Span(height, px_pitch_y, px_len_y) = 0

\* The source positions tried, in ticks, along an axis of the given extent.
Positions(extent, px_len) == (-px_len) .. extent

\* nx, ny: the sample counts per pixel side.
SampleCounts ==
    /\ pc = "applyPSF"
    /\ psf' = [psf EXCEPT !.nx = Samples(px_len_x, lens.psf_resolution),
                          !.ny = Samples(px_len_y, lens.psf_resolution)]
    /\ pc' = "zip"
    /\ UNCHANGED <<fields, pixels, lens, last, call, entry, exposure, iter, image>>

\* One source of the zip loop at (x, y): find the center pixel.
CentrePixel(x, y) ==
    /\ pc = "zip"
    /\ IF CentreRaises
       THEN /\ pc' = "idle"
            /\ last' = "error"
            /\ psf' = [psf EXCEPT !.x = x, !.y = y]
       ELSE /\ pc' = "window"
            /\ last' = last
            /\ psf' = [psf EXCEPT
                          !.x = x, !.y = y,
                          !.xi = CentreIndex(x, width, px_pitch_x, px_len_x, width_px),
                          !.yi = CentreIndex(y, height, px_pitch_y, px_len_y, height_px)]
    /\ UNCHANGED <<fields, pixels, lens, call, entry, exposure, iter, image>>

\* ------------------------------------------------------------- accumulate
\* The call: the lengths of xcoords, ycoords and photon_flux_density.
AccumulateCall(nx, ny, nf) ==
    /\ pc = "idle"
    /\ pc' = "sources"
    /\ call' = <<[xcoords |-> nx, ycoords |-> ny, photon_flux_density |-> nf]>>
    /\ entry' = pixels
    /\ last' = "accumulate"
    /\ image' = Nothing
    /\ exposure' = IF exposure = "cleared" THEN "dark" ELSE exposure
    /\ UNCHANGED <<fields, lens, psf, pixels, iter>>

\* Number of iterations of `for x, y, i in zip(xcoords, ycoords,
\* electron_dose)`, entered only `if len(photon_flux_density) > 0`.
Deposited(c) ==
    IF c.photon_flux_density > 0
    THEN Min(c.xcoords, Min(c.ycoords, c.photon_flux_density))
    ELSE 0

\* The electrons n sources add: one Poisson draw per pixel of the window of
\* each source (the PSF support covers the sensor, the means are positive).
RECURSIVE SourceDeposits(_, _)
SourceDeposits(n, budget) ==
    IF n = 0 THEN {Zeros(height_px, width_px)}
    ELSE UNION {{Plus(d, e) : e \in SourceDeposits(n - 1, budget - Total(d))} :
                   d \in PoissonDraws([p \in Pix |-> 1], budget)}

\* The first source raises in the centre-pixel lookup, before any deposit,
\* on a sensor where the lookup divides by 0.
AccumulateSources ==
    /\ pc = "sources"
    /\ IF Deposited(call[1]) > 0 /\ CentreRaises
       THEN /\ pc' = "idle"
            /\ last' = "error"
            /\ exposure' = "lit"
            /\ UNCHANGED pixels
       ELSE /\ \E d \in SourceDeposits(Deposited(call[1]), Room) :
                   pixels' = Plus(pixels, d)
            /\ pc' = "background"
            /\ last' = last
            /\ exposure' = IF call[1].photon_flux_density > 0
                           THEN "lit" ELSE exposure
    /\ call' = <<>>
    /\ UNCHANGED <<fields, lens, psf, entry, iter, image>>

\* The call raises: the exception leaves accumulate() where it stands.
Raise ==
    /\ pc' = "idle"
    /\ last' = "error"
    /\ exposure' = "lit"
    /\ UNCHANGED <<fields, lens, psf, pixels, call, entry, iter, image>>

\* background_flux: shape_ok says whether it broadcasts to the pixel grid,
\* flux is its value (bg_electron_dose has the sign of flux).
AccumulateBackground(shape_ok, flux) ==
    /\ pc = "background"
    /\ LET lam == [p \in Pix |-> flux]
       IN  IF ~shape_ok \/ PoissonRaises(lam)
           THEN Raise
           ELSE /\ \E d \in PoissonDraws(lam, Room) : pixels' = Plus(pixels, d)
                /\ pc' = "dark"
                /\ exposure' = IF flux = 0 THEN exposure ELSE "lit"
                /\ UNCHANGED <<fields, lens, psf, last, call, entry, iter, image>>

\* j is dark_current(temperature); dark_lambda = hot_pixels * dark_count has
\* the sign of hot_pixels * j.
AccumulateDark(j) ==
    /\ pc = "dark"
    /\ LET dark_lambda == [p \in Pix |-> hot_pixels[p] * j]
       IN  IF PoissonRaises(dark_lambda)
           THEN Raise
           ELSE /\ \E d \in PoissonDraws(dark_lambda, Room) :
                       pixels' = Plus(pixels, d)
                /\ pc' = "bloom"
                /\ exposure' = IF j = 0 THEN exposure ELSE "lit"
                /\ UNCHANGED <<fields, lens, psf, last, call, entry, iter, image>>

\* ------------------------------------------------------------ _applyBloom
\* np.minimum(self.pixels, self.full_well), with np.maximum in its place.
ClippedMax(buf) == [p \in DOMAIN buf |-> Max(buf[p], full_well)]

\* np.minimum(self.pixels, self.full_well)
Clipped(buf) == [p \in DOMAIN buf |-> Min(buf[p], full_well)]

\* The excess taken as the distance from full_well, not its positive part.
ExcessAbs(buf, p) ==
    IF buf[p] >= full_well THEN buf[p] - full_well ELSE full_well - buf[p]

\* excess = np.maximum(0, self.pixels - self.full_well), element p.
Excess(buf, p) == Max(0, buf[p] - full_well)

\* conv_filter in units of frac = 1 / len(self.bloom): entry k = [i, j] of
\* the 3x3 kernel is 1 where a direction of bloom puts frac, else 0.
ConvFilter(k) ==
    IF \/ k = <<1, 0>> /\ "-x" \in bloom
       \/ k = <<1, 2>> /\ "+x" \in bloom
       \/ k = <<0, 1>> /\ "-y" \in bloom
       \/ k = <<2, 1>> /\ "+y" \in bloom
    THEN 1 ELSE 0

\* The tap of a correlation: the kernel applied without the flip.
TapCorrelate(p, k) == <<p[1] + (k[1] - 1), p[2] + (k[2] - 1)>>

\* The input element that kernel entry k multiplies for output pixel p:
\* convolve2d, mode='same', flips the kernel about its centre [1, 1].
Tap(p, k) == <<p[1] - (k[1] - 1), p[2] - (k[2] - 1)>>

\* boundary='wrap': the excess continued periodically.
FillWrap(buf, q) == Excess(buf, <<q[1] % height_px, q[2] % width_px>>)

\* boundary='fill', fillvalue=0: the excess is 0 outside the array.
Fill(buf, q) == IF q \in DOMAIN buf THEN Excess(buf, q) ELSE 0

\* One product of the convolution sum.
Term(buf, p, k) == ConvFilter(k) * Fill(buf, Tap(p, k))

\* convolve2d(excess, conv_filter, mode='same', boundary='fill',
\* fillvalue=0) at p, in units of frac: the sum over the 3x3 kernel.
Convolve2d(buf, p) ==
    Term(buf, p, <<0, 0>>) + Term(buf, p, <<0, 1>>) + Term(buf, p, <<0, 2>>)
        + Term(buf, p, <<1, 0>>) + Term(buf, p, <<1, 1>>) + Term(buf, p, <<1, 2>>)
        + Term(buf, p, <<2, 0>>) + Term(buf, p, <<2, 1>>) + Term(buf, p, <<2, 2>>)

\* The pixels where the floating-point sum of the convolution can fall just
\* below an integer: frac = 1.0 / 3 is not exact, and a sum of two or more
\* products whose exact value is an integer k may come out as k or as the
\* double below k (1 * frac + 5 * frac is 1.9999999999999998).  One
\* product alone, and frac = 1, 1/2 or 1/4, are exact.
Inexact(buf) ==
    {p \in DOMAIN buf :
        /\ Cardinality(bloom) = 3
        /\ Convolve2d(buf, p) > 0
        /\ Convolve2d(buf, p) % 3 = 0
        /\ Cardinality({k \in (0 .. 2) \X (0 .. 2) : Term(buf, p, k) > 0}) >= 2}

\* np.floor of the convolution with the kernel of weights frac; in the
\* pixels of down the sum fell below the integer it stands for.
Received(buf, p, down) ==
    (Convolve2d(buf, p) \div Cardinality(bloom)) - (IF p \in down THEN 1 ELSE 0)

\* The excess left where it is.
CappedNot(buf, p) == buf[p]

\* self.pixels -= excess, element p.
Capped(buf, p) == buf[p] - Excess(buf, p)

\* any(excess.flatten().value > 0)
HasExcess(buf) == \E p \in DOMAIN buf : Excess(buf, p) > 0

\* One pass of the body of `while True` after the test.
Bloomed(buf, down) ==
    [p \in DOMAIN buf |-> Capped(buf, p) + Received(buf, p, down)]

\* `if not self.bloom`: clip and return.
BloomClip ==
    /\ pc = "bloom"
    /\ bloom = {}
    /\ pixels' = Clipped(pixels)
    /\ pc' = "idle"
    /\ UNCHANGED <<fields, lens, psf, last, call, entry, exposure, iter, image>>

\* An iteration that finds excess and redistributes it.
BloomIterate ==
    /\ pc = "bloom"
    /\ bloom # {}
    /\ HasExcess(pixels)
    /\ \E down \in SUBSET Inexact(pixels) : pixels' = Bloomed(pixels, down)
    /\ iter' = Min(iter + 1, MaxIter)
    /\ UNCHANGED <<fields, lens, psf, pc, last, call, entry, exposure, image>>

\* The iteration that finds no excess: break and return.
BloomReturn ==
    /\ pc = "bloom"
    /\ bloom # {}
    /\ ~HasExcess(pixels)
    /\ pc' = "idle"
    /\ iter' = 0
    /\ UNCHANGED <<fields, lens, psf, pixels, last, call, entry, exposure, image>>

\* ---------------------------------------------------------------- readout
\* np.minimum(np.floor(self.pixels * self.gain) + self.bias, self.adc_limit)
Quantize(buf) ==
    [p \in DOMAIN buf |-> Min(((buf[p] * gain) \div GainDen) + bias[p], adc_limit)]

\* The image computed from the buffer as it was before the read noise.
ExposedBefore(before, after) == before

\* The buffer the digital image is computed from: self.pixels after `+=`.
Exposed(before, after) == after

\* A readout that starts the next exposure by emptying the buffer.
ReadoutAndReset ==
    /\ pc = "idle"
    /\ \E noise \in PoissonDraws([p \in Pix |-> read_noise], Room) :
           image' = Quantize(Plus(pixels, noise))
    /\ pixels' = Zeros(height_px, width_px)
    /\ last' = "readout"
    /\ entry' = Nothing
    /\ UNCHANGED <<fields, lens, psf, pc, call, exposure, iter>>

Readout ==
    /\ pc = "idle"
    /\ \E noise \in PoissonDraws([p \in Pix |-> read_noise], Room) :
           /\ pixels' = Plus(pixels, noise)
           /\ image' = Quantize(Exposed(pixels, pixels'))
    /\ last' = "readout"
    /\ entry' = Nothing
    /\ UNCHANGED <<fields, lens, psf, pc, call, exposure, iter>>

\* ---------------------------------------------------------- specifications
Accumulate ==
    \/ \E nx, ny, nf \in 0 .. MaxSources : AccumulateCall(nx, ny, nf)
    \/ AccumulateSources
    \/ \E shape_ok \in BOOLEAN, flux \in {-1, 0, 1} :
           AccumulateBackground(shape_ok, flux)
    \/ \E j \in {-1, 0, 1} : AccumulateDark(j)

ApplyBloom == BloomClip \/ BloomIterate \/ BloomReturn

ApplyPSF ==
    \/ SampleCounts
    \/ \E x \in Positions(width, px_len_x), y \in Positions(height, px_len_y) :
           CentrePixel(x, y)

Next == Clear \/ Accumulate \/ ApplyBloom \/ Readout

\* The sensor under any sequence of calls.
Spec == Init /\ [][Next]_vars

\* _applyBloom alone, entered by accumulate() with any buffer the Poisson
\* draws can have produced.
BloomInit ==
    /\ height_px \in 1 .. BloomDim
    /\ width_px \in 1 .. BloomDim
    /\ px_len_x = 1
    /\ px_len_y = 1
    /\ px_pitch_x = 1
    /\ px_pitch_y = 1
    /\ pixels \in Buffers(height_px, width_px, BloomElectrons)
    /\ hot_pixels = [p \in Grid(height_px, width_px) |-> 1]
    /\ read_noise = 0
    /\ gain = 1
    /\ bias = [p \in Grid(height_px, width_px) |-> 0]
    /\ full_well \in 1 .. MaxFullWell
    /\ adc_limit = MaxAdc
    /\ bloom \in SUBSET Dirs
    /\ pc = "bloom"
    /\ last = "accumulate"
    /\ call = <<>>
    /\ entry = Nothing
    /\ exposure = "lit"
    /\ iter = 0
    /\ image = Nothing
    /\ lens = [psf_resolution |-> 1]
    /\ psf = NoLocals

\* The loop of _applyBloom runs on: nothing suspends the call.
BloomSpec == BloomInit /\ [][ApplyBloom]_vars /\ WF_vars(ApplyBloom)

\* The arithmetic of _applyPSF alone, entered by accumulate() on a sensor of
\* any geometry with px_len <= px_pitch, for a lens of any psf_resolution.
PsfInit ==
    /\ height_px \in 1 .. PsfDim
    /\ width_px \in 1 .. PsfDim
    /\ px_pitch_x \in 1 .. MaxPitch
    /\ px_pitch_y \in 1 .. MaxPitch
    /\ px_len_x \in 1 .. px_pitch_x
    /\ px_len_y \in 1 .. px_pitch_y
    /\ pixels = Zeros(height_px, width_px)
    /\ hot_pixels = [p \in Grid(height_px, width_px) |-> 1]
    /\ read_noise = 0
    /\ gain = 1
    /\ bias = [p \in Grid(height_px, width_px) |-> 0]
    /\ full_well = 1
    /\ adc_limit = MaxAdc
    /\ bloom = {}
    /\ pc = "applyPSF"
    /\ last = "accumulate"
    /\ call = <<>>
    /\ entry = Nothing
    /\ exposure = "lit"
    /\ iter = 0
    /\ image = Nothing
    /\ lens \in [psf_resolution : 1 .. MaxResolution]
    /\ psf = NoLocals

PsfSpec == PsfInit /\ [][ApplyPSF]_vars

\* ================================================================ claims
\* floor(x * gain / GainDen): the integer q with q <= x * gain / GainDen < q + 1.
IsFloorOfGain(q, x) ==
    /\ q * GainDen <= x * gain
    /\ x * gain < (q + 1) * GainDen

\* ---------------------------------------------------------------------
\* C1: in every state reached by clear(), accumulate() and readout(), with
\* any bloom set and any non-negative Poisson draws, and after every
\* iteration of the bloom loop, every element of pixels is >= 0.
C1_PixelsNonNegative == \A p \in Pix : pixels[p] >= 0

\* A bloom iteration has run and left an empty pixel beside a full one.
C1_Witness ==
    /\ pc = "bloom"
    /\ iter >= 1
    /\ \E p, q \in Pix : pixels[p] = 0 /\ pixels[q] >= full_well

\* ---------------------------------------------------------------------
\* C2: with an empty bloom set, after every accumulate() that returns,
\* whatever the buffer held before, every element of pixels is <= full_well.
C2_ClippedWithoutBloom ==
    (bloom = {} /\ pc = "idle" /\ last = "accumulate")
        => \A p \in Pix : pixels[p] <= full_well

\* accumulate() returned on a buffer that entered above full_well (read
\* noise of earlier readouts) and now holds exactly full_well there.
C2_Witness ==
    /\ bloom = {}
    /\ pc = "idle"
    /\ last = "accumulate"
    /\ \E p \in Pix : entry[p] > full_well /\ pixels[p] = full_well

\* ---------------------------------------------------------------------
\* C3: the image readout() returns has shape (height_px, width_px), integer
\* elements, every element <= adc_limit, and each element equals
\* min(floor(pixels * gain) + bias, adc_limit) on the buffer that holds the
\* read noise of this readout.
C3_ReadoutImage ==
    last = "readout" =>
        /\ DOMAIN image = (0 .. height_px - 1) \X (0 .. width_px - 1)
        /\ \A p \in DOMAIN image :
              /\ image[p] \in Int
              /\ image[p] <= adc_limit
              /\ \E q \in 0 .. pixels[p] * gain :
                    /\ IsFloorOfGain(q, pixels[p])
                    /\ image[p] = IF q + bias[p] <= adc_limit
                                  THEN q + bias[p] ELSE adc_limit

\* A readout with read noise in the buffer, one element truncated by the
\* floor and below adc_limit, another clipped to adc_limit.
C3_Witness ==
    /\ last = "readout"
    /\ read_noise > 0
    /\ exposure = "cleared"
    /\ \E p, q \in Pix :
          /\ (pixels[p] * gain) % GainDen # 0
          /\ image[p] < adc_limit
          /\ ((pixels[q] * gain) \div GainDen) + bias[q] > adc_limit

\* ---------------------------------------------------------------------
\* C4 as stated: readout() leaves pixels as it found it.
C4_ReadoutLeavesPixels == [][last' = "readout" => pixels' = pixels]_vars

\* C4 amended: readout() never resets or lowers pixels: every element after
\* the call is its value before plus this call's read-noise draw (>= 0), and
\* the buffer is unchanged when read_noise = 0.
C4_ReadoutOnlyAddsNoise ==
    [][last' = "readout" =>
          /\ DOMAIN pixels' = DOMAIN pixels
          /\ \A p \in Pix : pixels'[p] >= pixels[p]
          /\ read_noise = 0 => pixels' = pixels]_vars

\* A readout straight after clear() that left electrons in the buffer.
C4_Witness ==
    /\ last = "readout"
    /\ exposure = "cleared"
    /\ \E p \in Pix : pixels[p] > 0

\* ---------------------------------------------------------------------
\* C5: clear() sets every element of pixels to 0 and changes no other
\* field, whatever accumulate() and readout() calls came before; and the
\* readout of a dark frame taken after it (no source, no background, no
\* dark current, read_noise = 0) is min(bias, adc_limit) in every pixel.
C5_ClearErasesExposure ==
    [][/\ last' = "clear" =>
             /\ pixels' = [p \in (0 .. height_px - 1) \X (0 .. width_px - 1) |-> 0]
             /\ UNCHANGED fields
       /\ (last' = "readout" /\ exposure' = "dark" /\ read_noise' = 0) =>
             image' = [p \in (0 .. height_px - 1) \X (0 .. width_px - 1) |->
                          IF bias[p] <= adc_limit THEN bias[p] ELSE adc_limit]
      ]_vars

\* The readout of a dark frame taken after clear(), on a sensor whose bias
\* reaches above adc_limit.
C5_Witness ==
    /\ last = "readout"
    /\ exposure = "dark"
    /\ read_noise = 0
    /\ \E p \in Pix : bias[p] > adc_limit

\* ---------------------------------------------------------------------
\* C6: for every non-empty bloom set, sensor size and integer buffer, the
\* bloom loop reaches an iteration that finds no excess, and returns.
C6_BloomTerminates == (pc = "bloom" /\ bloom # {}) ~> (pc = "idle")

\* The loop, after two redistributions, at the test that finds no excess.
C6_Witness ==
    /\ pc = "bloom"
    /\ bloom # {}
    /\ iter >= 2
    /\ \A p \in Pix : pixels[p] <= full_well

\* ---------------------------------------------------------------------
\* C7 as stated: when accumulate() ends in an error, pixels is the buffer
\* from before the call.
C7_NoPartialChange == last = "error" => pixels = entry

\* ---------------------------------------------------------------------
\* C8 as stated: accumulate() reports an error whenever xcoords, ycoords and
\* photon_flux_density do not all have the same length.
C8_MismatchReported ==
    [][(/\ pc = "sources"
        /\ ~(/\ call[1].xcoords = call[1].ycoords
             /\ call[1].ycoords = call[1].photon_flux_density))
          => last' = "error"]_vars

\* ---------------------------------------------------------------------
\* The excess a bloom iteration finds in pixel q of the current buffer.
OverFull(q) == IF pixels[q] > full_well THEN pixels[q] - full_well ELSE 0

\* The orthogonal neighbours of p on the sensor.
Around(p) ==
    {q \in Pix : \/ q[1] = p[1] /\ (q[2] = p[2] + 1 \/ q[2] = p[2] - 1)
                 \/ q[2] = p[2] /\ (q[1] = p[1] + 1 \/ q[1] = p[1] - 1)}

\* Four times what the full kernel sends to p before the floor.
Quarters(p) == SumOver([q \in Pix |-> OverFull(q)], Around(p))

\* C9: no bloom iteration raises the total of pixels; and with
\* bloom = {+x, -x, +y, -y} and no pixel with excess on the sensor boundary,
\* each pixel loses less than 1 electron to the floor, so the total falls
\* by less than width_px * height_px.
C9_BloomNeverCreates ==
    [][(pc = "bloom" /\ bloom # {}) =>
          /\ Total(pixels') <= Total(pixels)
          /\ (/\ bloom = Dirs
              /\ \A q \in Pix : OverFull(q) > 0 => Cardinality(Around(q)) = 4)
             => /\ Total(pixels) - Total(pixels') < width_px * height_px
                /\ \A p \in Pix :
                      LET got == pixels'[p] - (pixels[p] - OverFull(p))
                      IN  /\ 4 * got <= Quarters(p)
                          /\ Quarters(p) < 4 * (got + 1)]_vars

\* After one iteration of the full kernel on a 3x3 sensor whose centre alone
\* was over full: the centre is full and the four neighbours got a share.
C9_Witness ==
    /\ pc = "bloom"
    /\ iter = 1
    /\ bloom = Dirs
    /\ height_px = 3
    /\ width_px = 3
    /\ pixels[<<1, 1>>] = full_well
    /\ \A q \in Around(<<1, 1>>) : pixels[q] = 1
    /\ \A q \in Pix \ (Around(<<1, 1>>) \cup {<<1, 1>>}) : pixels[q] = 0

\* ---------------------------------------------------------------------
\* The neighbour of (r, c) a direction names: '+x' is (r, c+1), '-x' is
\* (r, c-1), '+y' is (r+1, c), '-y' is (r-1, c).
Towards(p, d) ==
    CASE d = "+x" -> <<p[1], p[2] + 1>>
      [] d = "-x" -> <<p[1], p[2] - 1>>
      [] d = "+y" -> <<p[1] + 1, p[2]>>
      [] d = "-y" -> <<p[1] - 1, p[2]>>

\* C10: one bloom iteration on a buffer whose only charge is full_well + e
\* (e > 0) in pixel c, with a non-empty bloom set D, leaves c at full_well,
\* gives floor(e / |D|) to each neighbour D names that lies on the sensor,
\* and nothing to any other pixel (the share of a neighbour off the sensor
\* is lost).
C10_SinglePixelBloom ==
    [][\A c \in Pix :
          (/\ pc = "bloom"
           /\ bloom # {}
           /\ pixels[c] > full_well
           /\ \A q \in Pix \ {c} : pixels[q] = 0)
          => /\ pixels'[c] = full_well
             /\ \A q \in Pix \ {c} :
                   pixels'[q] =
                       IF \E d \in bloom : q = Towards(c, d)
                       THEN (pixels[c] - full_well) \div Cardinality(bloom)
                       ELSE 0]_vars

\* bloom = {+x} after its one iteration on a right-edge pixel: the pixel is
\* at full_well and the rest of the sensor is empty.
C10_Witness ==
    /\ pc = "bloom"
    /\ iter = 1
    /\ bloom = {"+x"}
    /\ width_px >= 2
    /\ \E r \in 0 .. height_px - 1 :
          /\ pixels[<<r, width_px - 1>>] = full_well
          /\ \A q \in Pix \ {<<r, width_px - 1>>} : pixels[q] = 0

\* ---------------------------------------------------------------------
\* C11 as stated: for every positive px_len and psf_resolution the sample
\* counts of _applyPSF satisfy n >= 2 and px_len / (n - 1) <= psf_resolution,
\* for nx with px_len_x and for ny with px_len_y.
C11_StepWithinResolution ==
    pc = "zip" =>
        /\ psf.nx >= 2
        /\ psf.ny >= 2
        /\ px_len_x <= lens.psf_resolution * (psf.nx - 1)
        /\ px_len_y <= lens.psf_resolution * (psf.ny - 1)

\* ---------------------------------------------------------------------
\* C12 as stated: on a sensor with width_px >= 2 and px_len_x <= px_pitch_x,
\* a source at the centre of the active rectangle of column c,
\* x = c * px_pitch_x - px_len_x / 2 with 0 <= c < width_px, gets the centre
\* index xi = c; likewise a source at the centre of row r gets yi = r.
C12_CentreInvertsGeometry ==
    pc = "window" =>
        /\ \A c \in 0 .. width_px - 1 :
              (/\ width_px >= 2
               /\ px_len_x <= px_pitch_x
               /\ 2 * psf.x = 2 * c * px_pitch_x - px_len_x) => psf.xi = c
        /\ \A r \in 0 .. height_px - 1 :
              (/\ height_px >= 2
               /\ px_len_y <= px_pitch_y
               /\ 2 * psf.y = 2 * r * px_pitch_y - px_len_y) => psf.yi = r

====
